---- MODULE Spec2Model ----
(***************************************************************************)
(* Model of src/bot.py: the timetable parser (parse_schedule) and the      *)
(* time-based schedule cache (get_cached_schedule) of the schedule bot.    *)
(*                                                                         *)
(* Text is a sequence of one-character strings.  The character "-" stands  *)
(* for the placeholder dash U+2014 and "\n" for a line break.  Python's    *)
(* None is the empty sequence and a present value x is <<x>>.  A dict is   *)
(* the sequence of its <<key, value>> pairs in insertion order.            *)
(***************************************************************************)
EXTENDS Integers, Sequences, FiniteSets, TLC

None == << >>
Some(x) == << x >>

(***************************************************************************)
(* str helpers, as Python computes them                                    *)
(***************************************************************************)
Whitespace == {" ", "\n"}

\* str.lstrip()
RECURSIVE LStrip(_)
LStrip(s) ==
    IF s = << >> THEN << >>
    ELSE IF Head(s) \in Whitespace THEN LStrip(Tail(s)) ELSE s

\* str.rstrip()
RECURSIVE RStrip(_)
RStrip(s) ==
    IF s = << >> THEN << >>
    ELSE IF s[Len(s)] \in Whitespace THEN RStrip(SubSeq(s, 1, Len(s) - 1)) ELSE s

\* str.strip()
Strip(s) == RStrip(LStrip(s))

\* str.rstrip(ch): drops every trailing ch
RECURSIVE RStripChar(_, _)
RStripChar(s, ch) ==
    IF s = << >> THEN << >>
    ELSE IF s[Len(s)] = ch THEN RStripChar(SubSeq(s, 1, Len(s) - 1), ch) ELSE s

\* s.startswith(sub)
StartsWith(s, sub) ==
    /\ Len(sub) <= Len(s)
    /\ SubSeq(s, 1, Len(sub)) = sub

\* sub in s
RECURSIVE Contains(_, _)
Contains(s, sub) ==
    IF Len(s) < Len(sub) THEN FALSE
    ELSE IF StartsWith(s, sub) THEN TRUE
    ELSE Contains(Tail(s), sub)

\* s.replace(old, ""): non-overlapping occurrences, left to right
RECURSIVE Remove(_, _)
Remove(s, old) ==
    IF Len(s) < Len(old) THEN s
    ELSE IF StartsWith(s, old) THEN Remove(SubSeq(s, Len(old) + 1, Len(s)), old)
    ELSE << Head(s) >> \o Remove(Tail(s), old)

\* index of the first ch in s, 0 when there is none
RECURSIVE IndexOf(_, _)
IndexOf(s, ch) ==
    IF s = << >> THEN 0
    ELSE IF Head(s) = ch THEN 1
    ELSE LET i == IndexOf(Tail(s), ch) IN IF i = 0 THEN 0 ELSE i + 1

\* s.split(ch): the pieces between the occurrences of ch
RECURSIVE Split(_, _)
Split(s, ch) ==
    LET i == IndexOf(s, ch) IN
    IF i = 0 THEN << s >>
    ELSE << SubSeq(s, 1, i - 1) >> \o Split(SubSeq(s, i + 1, Len(s)), ch)

\* s.split(ch, 1)[1]: what follows the first ch (s contains ch)
AfterFirst(s, ch) == SubSeq(s, IndexOf(s, ch) + 1, Len(s))

(***************************************************************************)
(* Configuration                                                           *)
(***************************************************************************)
MY_SUBGROUP == 2

\* the weekday labels, one token per label
WEEKDAYS_RU ==
    << <<"Mon">>, <<"Tue">>, <<"Wed">>, <<"Thu">>, <<"Fri">>, <<"Sat">>, <<"Sun">> >>

CACHE_DURATION == 5

DASH == "-"

\* f"({MY_SUBGROUP})"
SubgroupTag == << "(", ToString(MY_SUBGROUP), ")" >>

MinutesPerDay == 24 * 60
MinutesPerWeek == 7 * MinutesPerDay

(***************************************************************************)
(* The clock counts minutes; minute 0 is Monday 00:00 of ISO week 1.       *)
(***************************************************************************)
\* datetime.now().isocalendar()[1]
WeekNumber(t) == (t \div MinutesPerWeek) + 1

is_even_week(t) == WeekNumber(t) % 2 = 0

(***************************************************************************)
(* The document: the h3 and table nodes of the page in document order.     *)
(* A table is the sequence of its tr rows, a row the sequence of the raw   *)
(* texts of its td cells (the header row has th cells only, so no td).     *)
(***************************************************************************)
H3(text) == [tag |-> "h3", text |-> text, rows |-> << >>]
Table(rows) == [tag |-> "table", text |-> << >>, rows |-> rows]

\* node.get_text(strip=True) of a node holding one text
get_text(raw) == Strip(raw)

\* the membership test left out: every heading text counts as a day
IsWeekdayAnyText(name) == TRUE

\* day_name in WEEKDAYS_RU
IsWeekday(name) == \E i \in 1..Len(WEEKDAYS_RU) : WEEKDAYS_RU[i] = name

\* header.find_next("table"): index of the first table after node i, 0 if none
RECURSIVE find_next(_, _)
find_next(doc, i) ==
    IF i >= Len(doc) THEN 0
    ELSE IF doc[i + 1].tag = "table" THEN i + 1
    ELSE find_next(doc, i + 1)

\* "**" in subject_cell
is_even_marker(subject_cell) == Contains(subject_cell, <<"*", "*">>)

\* "*" in subject_cell and not is_even_marker
is_odd_marker(subject_cell) ==
    Contains(subject_cell, <<"*">>) /\ ~is_even_marker(subject_cell)

\* the markers computed but never applied as an exclusion
parity_never_excluded(subject_cell, even) == FALSE

\* the row is dropped because its marker disagrees with the current week
parity_excluded(subject_cell, even) ==
    \/ is_even_marker(subject_cell) /\ ~even
    \/ is_odd_marker(subject_cell) /\ even

\* subject_cell.replace("**", "").replace("*", "").strip()
clean_text(subject_cell) ==
    Strip(Remove(Remove(subject_cell, <<"*", "*">>), <<"*">>))

\* [line.strip() for line in pieces if line.strip()]
RECURSIVE StripNonEmpty(_)
StripNonEmpty(pieces) ==
    IF pieces = << >> THEN << >>
    ELSE LET line == Strip(Head(pieces)) IN
         IF line = << >> THEN StripNonEmpty(Tail(pieces))
         ELSE << line >> \o StripNonEmpty(Tail(pieces))

lines_of(clean) == StripNonEmpty(Split(clean, "\n"))

\* the loop over lines: the first line that carries the subgroup tag or has
\* no parenthesis decides; None when no line does
RECURSIVE my_lesson(_)
my_lesson(lines) ==
    IF lines = << >> THEN None
    ELSE LET line == Head(lines) IN
         IF Contains(line, SubgroupTag) THEN Some(Strip(AfterFirst(line, ")")))
         ELSE IF ~Contains(line, <<"(">>) /\ ~Contains(line, <<")">>) THEN Some(line)
         ELSE my_lesson(Tail(lines))

\* if my_lesson: the comparison with the dash left out
lesson_kept_unless_empty(lesson) ==
    /\ lesson # None
    /\ lesson[1] # << >>

\* if my_lesson and my_lesson != DASH
lesson_kept(lesson) ==
    /\ lesson # None
    /\ lesson[1] # << >>
    /\ lesson[1] # << DASH >>

\* if not subject_cell or subject_cell == DASH: continue
placeholder_cell(subject_cell) ==
    subject_cell = << >> \/ subject_cell = << DASH >>

\* f"{time_cell} - {my_lesson}"
format_lesson(time_cell, lesson) == time_cell \o <<" ", DASH, " ">> \o lesson

\* one pass of the loop over rows: the entries the row appends (none or one)
row_lessons(row, even) ==
    IF Len(row) < 2 THEN << >>
    ELSE LET time_cell == get_text(row[1])
             subject_cell == get_text(row[2])
             lesson == my_lesson(lines_of(clean_text(subject_cell)))
         IN  IF placeholder_cell(subject_cell) THEN << >>
             ELSE IF parity_excluded(subject_cell, even) THEN << >>
             ELSE IF lesson_kept(lesson)
                  THEN << format_lesson(time_cell, lesson[1]) >>
                  ELSE << >>

\* the loop over table.find_all("tr")[1:]
RECURSIVE rows_lessons(_, _)
rows_lessons(rows, even) ==
    IF rows = << >> THEN << >>
    ELSE row_lessons(Head(rows), even) \o rows_lessons(Tail(rows), even)

\* the rows taken without the [1:]: the first row is processed too
table_lessons_with_first_row(table, even) == rows_lessons(table.rows, even)

table_lessons(table, even) ==
    IF table.rows = << >> THEN << >>
    ELSE rows_lessons(Tail(table.rows), even)

\* key in d
HasKey(d, k) == \E i \in 1..Len(d) : d[i][1] = k

\* d.get(k, default)
DictGet(d, k, default) ==
    IF HasKey(d, k)
    THEN d[CHOOSE i \in 1..Len(d) : d[i][1] = k][2]
    ELSE default

\* d[k] = v: an existing key keeps its place, a new key goes last
DictSet(d, k, v) ==
    IF HasKey(d, k)
    THEN [i \in 1..Len(d) |-> IF d[i][1] = k THEN << k, v >> ELSE d[i]]
    ELSE Append(d, << k, v >>)

\* header.get_text(strip=True).rstrip(":")
day_name_of(header) == RStripChar(get_text(header.text), ":")

\* the loop over the h3 headings from node i on, days being the dict so far
RECURSIVE parse_from(_, _, _, _)
parse_from(doc, i, even, days) ==
    IF i > Len(doc) THEN days
    ELSE IF doc[i].tag # "h3" THEN parse_from(doc, i + 1, even, days)
    ELSE LET day_name == day_name_of(doc[i])
             t == find_next(doc, i)
         IN  IF ~IsWeekday(day_name) THEN parse_from(doc, i + 1, even, days)
             ELSE IF t = 0 THEN parse_from(doc, i + 1, even, days)
             ELSE parse_from(doc, i + 1, even,
                             DictSet(days, day_name, table_lessons(doc[t], even)))

parse_schedule(doc, even) == parse_from(doc, 1, even, << >>)

(***************************************************************************)
(* The handlers.  A fixed message text is one token.                       *)
(***************************************************************************)
\* "\n".join(lessons)
RECURSIVE JoinLines(_)
JoinLines(lessons) ==
    IF lessons = << >> THEN << >>
    ELSE IF Len(lessons) = 1 THEN lessons[1]
    ELSE lessons[1] \o <<"\n">> \o JoinLines(Tail(lessons))

format_day_schedule(day_name, lessons) ==
    IF lessons = << >>
    THEN <<"*">> \o day_name \o <<":", "*", "\n", DASH, "\n">>
    ELSE <<"*">> \o day_name \o <<":", "*", "\n">> \o JoinLines(lessons) \o <<"\n">>

\* datetime.now().weekday(): 0 is Monday
weekday(t) == (t \div MinutesPerDay) % 7

CouldNotLoad == << "could-not-load" >>
TodayIsDayOff == << "today-is-a-day-off" >>
TomorrowIsDayOff == << "tomorrow-is-a-day-off" >>
WeekTitle == << "schedule-of-this-week", "\n", "\n" >>

\* the text today() answers with, schedule being what the cache call returned
today(schedule, t) ==
    IF schedule = None THEN CouldNotLoad
    ELSE IF weekday(t) >= Len(WEEKDAYS_RU) THEN TodayIsDayOff
    ELSE LET day_name == WEEKDAYS_RU[weekday(t) + 1] IN
         format_day_schedule(day_name, DictGet(schedule[1], day_name, << >>))

\* the text tomorrow() answers with
tomorrow(schedule, t) ==
    LET tomorrow_weekday == (weekday(t) + 1) % 7 IN
    IF schedule = None THEN CouldNotLoad
    ELSE IF tomorrow_weekday >= Len(WEEKDAYS_RU) THEN TomorrowIsDayOff
    ELSE LET day_name == WEEKDAYS_RU[tomorrow_weekday + 1] IN
         format_day_schedule(day_name, DictGet(schedule[1], day_name, << >>))

\* the loop over WEEKDAYS_RU[:-1] from label i on
RECURSIVE week_from(_, _)
week_from(snapshot, i) ==
    IF i > Len(WEEKDAYS_RU) - 1 THEN << >>
    ELSE format_day_schedule(WEEKDAYS_RU[i], DictGet(snapshot, WEEKDAYS_RU[i], << >>))
             \o week_from(snapshot, i + 1)

\* the text week() answers with
week(schedule) ==
    IF schedule = None THEN CouldNotLoad
    ELSE WeekTitle \o week_from(schedule[1], 1)

Handlers == {"today", "tomorrow", "week"}

\* the handler body that checks nothing: schedule.get on None raises, so
\* no text at all is sent when the cache call returned None
answers_unchecked(h, schedule, t) ==
    IF schedule = None THEN << >>
    ELSE IF h = "today" THEN << today(schedule, t) >>
    ELSE IF h = "tomorrow" THEN << tomorrow(schedule, t) >>
    ELSE << week(schedule) >>

\* the texts handler h gives to message.answer after the cache call returned
answers(h, schedule, t) ==
    IF h = "today" THEN << today(schedule, t) >>
    ELSE IF h = "tomorrow" THEN << tomorrow(schedule, t) >>
    ELSE << week(schedule) >>

(***************************************************************************)
(* Bounds of the model                                                     *)
(***************************************************************************)
NumTasks == 2
MaxTicks == 6
TicksBeforeMonday == 2
MaxCellLen == 4
MaxNodes == 3

\* the handler tasks the dispatcher runs on the one event loop
Tasks == 1..NumTasks

\* the run starts shortly before a week ends, so the parity can change
StartClock == MinutesPerWeek - TicksBeforeMonday
MaxClock == StartClock + MaxTicks

\* what the awaited GET can raise
FetchErrors == {"network", "status", "timeout"}

\* a table's header row: th cells only
HeaderRow == << >>

\* pages the site can answer with in the cache runs
NoHeadingPage == << Table(<< HeaderRow, << <<"9">>, <<"a">> >> >>) >>
MonPage ==
    << H3(<<"Mon">>),
       Table(<< HeaderRow, << <<"9">>, <<"*", "*", "a">> >>, << <<"8">>, <<"b">> >> >>) >>
Pages == {NoHeadingPage, MonPage}

VARIABLES
    clock,           \* the wall clock datetime.now() reads
    schedule_cache,  \* the module-level dict: data and updated_at
    pc,              \* per task: "idle", "fetching" (suspended at the GET), "done"
    now,             \* per task: the local now of its suspended call (0: none)
    result,          \* per task: the value its call returned
    outcome,         \* per task: how its call ended
    fetches,         \* per task: GET requests its call has started
    html,            \* the parser runs: the document given to parse_schedule
    days,            \* the parser runs: what parse_schedule returned
    handler,         \* per task: the handler it runs ("none": no message)
    sent             \* per task: the texts its handler gave to message.answer

vars ==
    << clock, schedule_cache, pc, now, result, outcome, fetches, html, days,
       handler, sent >>

botVars == << handler, sent >>

cacheVars == << schedule_cache, pc, now, result, outcome, fetches >>

\* bool(d) of a dict
Truthy(d) == d # << >>

\* lines 125-126: both fields truthy and the entry younger than CACHE_DURATION
CacheHit(t) ==
    /\ schedule_cache.data # None
    /\ Truthy(schedule_cache.data[1])
    /\ schedule_cache.updated_at # None
    /\ t - schedule_cache.updated_at[1] < CACHE_DURATION

EmptyCache == [data |-> None, updated_at |-> None]

Init ==
    /\ clock = StartClock
    /\ schedule_cache = EmptyCache
    /\ pc = [c \in Tasks |-> "idle"]
    /\ now = [c \in Tasks |-> 0]
    /\ result = [c \in Tasks |-> None]
    /\ outcome = [c \in Tasks |-> "none"]
    /\ fetches = [c \in Tasks |-> 0]
    /\ html = << >>
    /\ days = None
    /\ handler = [c \in Tasks |-> "none"]
    /\ sent = [c \in Tasks |-> << >>]

\* time passes
Tick ==
    /\ clock < MaxClock
    /\ clock' = clock + 1
    /\ UNCHANGED << cacheVars, html, days, botVars >>

\* a handler calls get_cached_schedule: the code up to the return of the
\* cached data, or up to the await of the GET
get_cached_schedule(c) ==
    /\ pc[c] = "idle"
    /\ IF CacheHit(clock)
       THEN /\ pc' = [pc EXCEPT ![c] = "done"]
            /\ result' = [result EXCEPT ![c] = schedule_cache.data]
            /\ outcome' = [outcome EXCEPT ![c] = "cached"]
            /\ UNCHANGED << now, fetches >>
       ELSE /\ pc' = [pc EXCEPT ![c] = "fetching"]
            /\ now' = [now EXCEPT ![c] = clock]
            /\ fetches' = [fetches EXCEPT ![c] = @ + 1]
            /\ UNCHANGED << result, outcome >>
    /\ UNCHANGED << clock, schedule_cache, html, days >>

\* FetchOk with the second store lost: data is written, updated_at is not
FetchOkDataOnly(c, page) ==
    /\ pc[c] = "fetching"
    /\ LET parsed == parse_schedule(page, is_even_week(clock)) IN
       /\ schedule_cache' = [schedule_cache EXCEPT !.data = Some(parsed)]
       /\ result' = [result EXCEPT ![c] = Some(parsed)]
    /\ pc' = [pc EXCEPT ![c] = "done"]
    /\ outcome' = [outcome EXCEPT ![c] = "fetched"]
    /\ now' = [now EXCEPT ![c] = 0]
    /\ UNCHANGED << clock, fetches, html, days >>

\* FetchOk that refills the stored mapping in place (clear, then update)
\* instead of storing a new one: whoever holds the stored mapping sees it change
FetchOkInPlace(c, page) ==
    /\ pc[c] = "fetching"
    /\ LET parsed == parse_schedule(page, is_even_week(clock)) IN
       /\ schedule_cache' = [data |-> Some(parsed), updated_at |-> Some(now[c])]
       /\ result' = [d \in Tasks |->
                        IF d = c \/ (pc[d] = "done" /\ result[d] # None
                                        /\ result[d] = schedule_cache.data)
                        THEN Some(parsed) ELSE result[d]]
    /\ pc' = [pc EXCEPT ![c] = "done"]
    /\ outcome' = [outcome EXCEPT ![c] = "fetched"]
    /\ now' = [now EXCEPT ![c] = 0]
    /\ UNCHANGED << clock, fetches, html, days >>

\* the GET answers with a page: parse, store both fields, return the parse
FetchOk(c, page) ==
    /\ pc[c] = "fetching"
    /\ LET parsed == parse_schedule(page, is_even_week(clock)) IN
       /\ schedule_cache' = [data |-> Some(parsed), updated_at |-> Some(now[c])]
       /\ result' = [result EXCEPT ![c] = Some(parsed)]
    /\ pc' = [pc EXCEPT ![c] = "done"]
    /\ outcome' = [outcome EXCEPT ![c] = "fetched"]
    /\ now' = [now EXCEPT ![c] = 0]
    /\ UNCHANGED << clock, fetches, html, days >>

\* FetchFail that also drops the cached entry
FetchFailClearsCache(c, e) ==
    /\ pc[c] = "fetching"
    /\ pc' = [pc EXCEPT ![c] = "done"]
    /\ result' = [result EXCEPT ![c] = None]
    /\ outcome' = [outcome EXCEPT ![c] = e]
    /\ now' = [now EXCEPT ![c] = 0]
    /\ schedule_cache' = EmptyCache
    /\ UNCHANGED << clock, fetches, html, days >>

\* FetchFail that falls back to whatever the cache holds
FetchFailServesCache(c, e) ==
    /\ pc[c] = "fetching"
    /\ pc' = [pc EXCEPT ![c] = "done"]
    /\ result' = [result EXCEPT ![c] = schedule_cache.data]
    /\ outcome' = [outcome EXCEPT ![c] = e]
    /\ now' = [now EXCEPT ![c] = 0]
    /\ UNCHANGED << clock, schedule_cache, fetches, html, days >>

\* the GET or raise_for_status raises: log and return None
FetchFail(c, e) ==
    /\ pc[c] = "fetching"
    /\ pc' = [pc EXCEPT ![c] = "done"]
    /\ result' = [result EXCEPT ![c] = None]
    /\ outcome' = [outcome EXCEPT ![c] = e]
    /\ now' = [now EXCEPT ![c] = 0]
    /\ UNCHANGED << clock, schedule_cache, fetches, html, days >>

\* the awaiting handler takes the value; the task is free for the next message
Return(c) ==
    /\ pc[c] = "done"
    /\ pc' = [pc EXCEPT ![c] = "idle"]
    /\ result' = [result EXCEPT ![c] = None]
    /\ outcome' = [outcome EXCEPT ![c] = "none"]
    /\ fetches' = [fetches EXCEPT ![c] = 0]
    /\ UNCHANGED << clock, schedule_cache, now, html, days >>

\* the cache alone: who calls and what the caller does next is left open
Next ==
    \/ Tick
    \/ \E c \in Tasks : get_cached_schedule(c) /\ UNCHANGED botVars
    \/ \E c \in Tasks : \E page \in Pages : FetchOk(c, page) /\ UNCHANGED botVars
    \/ \E c \in Tasks : \E e \in FetchErrors : FetchFail(c, e) /\ UNCHANGED botVars
    \/ \E c \in Tasks : Return(c) /\ UNCHANGED botVars

Spec == Init /\ [][Next]_vars

(***************************************************************************)
(* The bot: the handlers call the cache and answer.  A handler runs from   *)
(* the return of get_cached_schedule to its message.answer without         *)
(* suspending, so "done" is here the handler suspended in message.answer.  *)
(***************************************************************************)
\* the handler of task c goes on after the cache call, if that has returned
Answer(c, h) ==
    sent' = [sent EXCEPT ![c] =
                IF pc'[c] = "done" THEN answers(h, result'[c], clock) ELSE << >>]

\* the dispatcher starts handler h in task c; it calls get_cached_schedule
Dispatch(c, h) ==
    /\ get_cached_schedule(c)
    /\ handler' = [handler EXCEPT ![c] = h]
    /\ Answer(c, h)

\* the GET of task c answers with a page; its handler goes on
ResumeOk(c, page) ==
    /\ FetchOk(c, page)
    /\ Answer(c, handler[c])
    /\ UNCHANGED handler

\* the GET of task c raises; its handler goes on
ResumeFail(c, e) ==
    /\ FetchFail(c, e)
    /\ Answer(c, handler[c])
    /\ UNCHANGED handler

\* message.answer completes and the handler returns
Finish(c) ==
    /\ Return(c)
    /\ handler' = [handler EXCEPT ![c] = "none"]
    /\ sent' = [sent EXCEPT ![c] = << >>]

\* the suspended call of task c ends, one way or the other
Completes(c) ==
    \/ \E page \in Pages : ResumeOk(c, page)
    \/ \E e \in FetchErrors : ResumeFail(c, e)

BotNext ==
    \/ Tick
    \/ \E c \in Tasks : \E h \in Handlers : Dispatch(c, h)
    \/ \E c \in Tasks : Completes(c)
    \/ \E c \in Tasks : Finish(c)

\* the GET ends within its timeout and message.answer ends: a task that can
\* go on does go on
BotSpec ==
    /\ Init
    /\ [][BotNext]_vars
    /\ \A c \in Tasks : WF_vars(Completes(c)) /\ WF_vars(Finish(c))

(***************************************************************************)
(* The parser runs: parse_schedule applied to bounded documents            *)
(***************************************************************************)
\* the pieces a subject cell is put together from
Atoms == { <<"a">>, << DASH >>, <<" ">>, <<"*">>, <<"(">>, <<")">>, SubgroupTag, <<"\n">> }

RECURSIVE Flatten(_)
Flatten(ss) == IF ss = << >> THEN << >> ELSE Head(ss) \o Flatten(Tail(ss))

Cells == { Flatten(ss) : ss \in UNION { [1..n -> Atoms] : n \in 0..MaxCellLen } }

\* a Monday whose table has one data row with the given subject cell
CellPage(cell) == << H3(<<"Mon">>), Table(<< HeaderRow, << <<"9">>, cell >> >>) >>

\* the nodes the structured documents are put together from
Nodes ==
    { H3(<<"Mon">>), H3(<<" ", "Tue", ":">>), H3(<<"x">>),
      Table(<< HeaderRow >>),
      Table(<< HeaderRow, << <<"9">>, <<"a">> >>, << <<"8">> >>, << <<"7">>, <<"*", "b">> >> >>),
      Table(<< << <<"6">>, <<"c">> >>, << <<"5">>, <<"a">> >> >>) }

NodePages == UNION { [1..n -> Nodes] : n \in 0..MaxNodes }

ParseInputs == { CellPage(cell) : cell \in Cells } \cup NodePages

\* one minute of an odd week and one of an even week
ParseClocks == { StartClock, MinutesPerWeek }

ParseInit ==
    /\ clock \in ParseClocks
    /\ html \in ParseInputs
    /\ days = None
    /\ schedule_cache = EmptyCache
    /\ pc = [c \in Tasks |-> "idle"]
    /\ now = [c \in Tasks |-> 0]
    /\ result = [c \in Tasks |-> None]
    /\ outcome = [c \in Tasks |-> "none"]
    /\ fetches = [c \in Tasks |-> 0]
    /\ handler = [c \in Tasks |-> "none"]
    /\ sent = [c \in Tasks |-> << >>]

Parse ==
    /\ days = None
    /\ days' = Some(parse_schedule(html, is_even_week(clock)))
    /\ UNCHANGED << clock, html, cacheVars, botVars >>

ParseNext == Parse

ParseSpec == ParseInit /\ [][ParseNext]_vars

(***************************************************************************)
(* The handlers alone: a document is parsed and one message is handled     *)
(* with the parse as the schedule the cache call returned.                 *)
(***************************************************************************)
ReplyInit ==
    /\ clock \in ParseClocks
    /\ html \in NodePages
    /\ days = None
    /\ schedule_cache = EmptyCache
    /\ pc = [c \in Tasks |-> "idle"]
    /\ now = [c \in Tasks |-> 0]
    /\ result = [c \in Tasks |-> None]
    /\ outcome = [c \in Tasks |-> "none"]
    /\ fetches = [c \in Tasks |-> 0]
    /\ handler = [c \in Tasks |-> "none"]
    /\ sent = [c \in Tasks |-> << >>]

\* task c runs handler h on the parsed schedule
Reply(c, h) ==
    /\ days # None
    /\ \A d \in Tasks : handler[d] = "none"
    /\ handler' = [handler EXCEPT ![c] = h]
    /\ sent' = [sent EXCEPT ![c] = answers(h, days, clock)]
    /\ UNCHANGED << clock, html, days, cacheVars >>

ReplyNext ==
    \/ Parse
    \/ \E c \in Tasks : \E h \in Handlers : Reply(c, h)

ReplySpec == ReplyInit /\ [][ReplyNext]_vars

(***************************************************************************)
(* Properties of the cache, checked under Spec                             *)
(***************************************************************************)
InFlight == { c \in Tasks : pc[c] = "fetching" }

\* the step in which task c enters get_cached_schedule
Calls(c) == pc[c] = "idle" /\ pc'[c] # "idle"

\* the step in which the refresh of task c ends in the except branch
Fails(c) == pc[c] = "fetching" /\ pc'[c] = "done" /\ outcome'[c] \in FetchErrors

\* the step in which the refresh of task c stores its parse
Stores(c) == pc[c] = "fetching" /\ pc'[c] = "done" /\ outcome'[c] = "fetched"

\* a snapshot exists and is younger than the freshness window
FreshEntry ==
    /\ schedule_cache.data # None
    /\ schedule_cache.updated_at # None
    /\ clock - schedule_cache.updated_at[1] < CACHE_DURATION

\* C1: calls that overlap while the cache is stale or empty coalesce: at no
\* reachable state are two refreshes in flight at once.
C1_OneRefreshInFlight == Cardinality(InFlight) <= 1

\* C2: a call made while the cache holds a snapshot younger than the
\* freshness window returns that snapshot and starts no fetch, whatever the
\* snapshot is, a snapshot without days included.
C2_FreshIsServed ==
    [][\A c \in Tasks :
        (Calls(c) /\ FreshEntry) =>
            /\ pc'[c] = "done"
            /\ result'[c] = schedule_cache.data
            /\ fetches'[c] = 0]_vars

\* C3: a failing refresh writes neither field of the cache entry, and the
\* entry changes only in the step of a refresh that succeeds.
C3_FailureKeepsEntry ==
    [][/\ \A c \in Tasks : Fails(c) => schedule_cache' = schedule_cache
       /\ schedule_cache' # schedule_cache => \E c \in Tasks : Stores(c)]_vars

\* a refresh has failed while the cache holds a snapshot past the window
C3_Witness ==
    \E c \in Tasks :
        /\ pc[c] = "done"
        /\ outcome[c] = "timeout"
        /\ schedule_cache.data # None
        /\ Truthy(schedule_cache.data[1])
        /\ clock - schedule_cache.updated_at[1] >= CACHE_DURATION

\* C4: a call whose own refresh failed returns None, never a snapshot, also
\* when the cache still holds the stale one.
C4_FailedCallReturnsNone ==
    \A c \in Tasks :
        (pc[c] = "done" /\ fetches[c] = 1 /\ outcome[c] \in FetchErrors)
            => result[c] = None

\* a call has failed and returned while the stale snapshot sits in the cache
C4_Witness ==
    \E c \in Tasks :
        /\ pc[c] = "done"
        /\ outcome[c] = "status"
        /\ result[c] = None
        /\ \A d \in Tasks \ {c} : pc[d] = "idle"
        /\ schedule_cache.data # None
        /\ Truthy(schedule_cache.data[1])
        /\ clock - schedule_cache.updated_at[1] >= CACHE_DURATION

\* C5: a call made while no other call is in progress starts exactly one
\* fetch when the cache is empty or the snapshot's age is at least the
\* window, none when the age is below the window, and never a second one.
C5_OneFetchIffNotFresh ==
    [][\A c \in Tasks :
        /\ (Calls(c) /\ \A d \in Tasks \ {c} : pc[d] = "idle") =>
              IF FreshEntry
              THEN fetches'[c] = 0 /\ pc'[c] = "done"
              ELSE fetches'[c] = 1 /\ pc'[c] = "fetching"
        /\ (pc[c] # "idle" /\ pc'[c] # "idle") => fetches'[c] = fetches[c]]_vars

\* C6: the entry is empty in both fields or set in both, and every change
\* of it installs the parse and the now of one and the same refresh.
C6_EntryIsWhole ==
    /\ [](schedule_cache.data = None <=> schedule_cache.updated_at = None)
    /\ [][schedule_cache' # schedule_cache =>
            \E c \in Tasks :
                /\ Stores(c)
                /\ schedule_cache'.data = result'[c]
                /\ schedule_cache'.data # None
                /\ schedule_cache'.updated_at = Some(now[c])]_vars

\* a refresh that started before the last tick has replaced an entry that
\* another refresh had stored
C6_Witness ==
    /\ schedule_cache.data # None
    /\ schedule_cache.updated_at # None
    /\ schedule_cache.updated_at[1] < clock
    /\ \E c \in Tasks : pc[c] = "done" /\ outcome[c] = "fetched"
                        /\ result[c] = schedule_cache.data
    /\ \E c \in Tasks : pc[c] = "done" /\ outcome[c] = "fetched"
                        /\ result[c] # schedule_cache.data

\* C16: the stored updated_at never decreases: a refresh that read an
\* earlier now never overwrites the entry of a refresh that read a later one.
C16_UpdatedAtNeverDecreases ==
    [][schedule_cache.updated_at # None =>
          /\ schedule_cache'.updated_at # None
          /\ schedule_cache'.updated_at[1] >= schedule_cache.updated_at[1]]_vars

\* C17: every snapshot a call returns is a parse under the week parity in
\* effect when the call returns it, the cached ones included.
C17_ReturnedUnderCurrentParity ==
    [][\A c \in Tasks :
        (pc[c] # "done" /\ pc'[c] = "done" /\ result'[c] # None) =>
            \E page \in Pages :
                result'[c][1] = parse_schedule(page, is_even_week(clock))]_vars

(***************************************************************************)
(* Properties of the bot, checked under BotSpec                            *)
(***************************************************************************)
\* C12: a snapshot is never changed after it was returned or stored: a task
\* that holds a returned snapshot holds the same value after every step of
\* any task, and the stored snapshot changes only in the step in which a
\* refresh stores the mapping it has just built and returns.
C12_SnapshotsNeverModified ==
    [][/\ \A c \in Tasks :
            (pc[c] = "done" /\ pc'[c] = "done") => result'[c] = result[c]
       /\ schedule_cache'.data # schedule_cache.data =>
            \E c \in Tasks : Stores(c) /\ schedule_cache'.data = result'[c]]_vars

\* a handler still holds the snapshot the cache served it while the refresh
\* of another task has stored a different one
C12_Witness ==
    \E c \in Tasks : \E d \in Tasks \ {c} :
        /\ pc[c] = "done" /\ outcome[c] = "cached" /\ result[c] # None
        /\ pc[d] = "done" /\ outcome[d] = "fetched"
        /\ result[d] = schedule_cache.data
        /\ result[d] # result[c]
        /\ Len(sent[c]) = 1 /\ Len(sent[d]) = 1

\* C14: every call of get_cached_schedule returns, with a snapshot or with
\* None, whatever the GET does; every today, tomorrow or week request gets
\* exactly one answer, and that answer is the could-not-load text exactly
\* when the call returned None.
C14_CallReturnsAndOneReply ==
    /\ [](\A c \in Tasks :
            /\ pc[c] = "done" =>
                    /\ Len(sent[c]) = 1
                    /\ (sent[c][1] = CouldNotLoad) <=> (result[c] = None)
            /\ pc[c] # "done" => sent[c] = << >>)
    /\ \A c \in Tasks :
            (handler[c] # "none") ~> (pc[c] = "done" /\ Len(sent[c]) = 1)

\* one request was answered after its GET failed, another with a snapshot
C14_Witness ==
    \E c \in Tasks : \E d \in Tasks \ {c} :
        /\ pc[c] = "done" /\ outcome[c] \in FetchErrors
        /\ sent[c] = << CouldNotLoad >>
        /\ pc[d] = "done" /\ result[d] # None
        /\ Len(sent[d]) = 1 /\ sent[d][1] # CouldNotLoad

(***************************************************************************)
(* Properties of the parser, checked under ParseSpec                       *)
(***************************************************************************)
\* the document is a Monday heading and a table with one data row of two cells
IsCellPage ==
    /\ Len(html) = 2
    /\ html[1] = H3(<<"Mon">>)
    /\ html[2].tag = "table"
    /\ Len(html[2].rows) = 2
    /\ Len(html[2].rows[2]) = 2

TheTime == html[2].rows[2][1]
TheCell == html[2].rows[2][2]

\* the lines of the cell: markers removed, split, trimmed, empty ones dropped
TheLines == lines_of(clean_text(Strip(TheCell)))

\* Monday's lessons in the returned snapshot
MonLessons == DictGet(days[1], <<"Mon">>, << >>)

Parsed == days # None

\* the subject of an entry "time - subject"
SubjectOf(entry, time) == SubSeq(entry, Len(time) + 4, Len(entry))

Tagged(line) == Contains(line, SubgroupTag)

\* C7: when some line of the cell carries the subgroup tag, the lesson is
\* the trimmed text after the first ")" of the first such line, wherever
\* lines without parentheses sit in the list.
C7_TaggedLineWins ==
    (Parsed /\ IsCellPage /\ MonLessons # << >>) =>
        \A i \in 1..Len(TheLines) :
            (Tagged(TheLines[i]) /\ \A j \in 1..(i - 1) : ~Tagged(TheLines[j])) =>
                MonLessons =
                    << format_lesson(TheTime, Strip(AfterFirst(TheLines[i], ")"))) >>

\* C8: every recognized day heading with no table after it is a key of the
\* snapshot, mapped to the empty list.
C8_HeadingWithoutTableIsEmptyDay ==
    Parsed =>
        \A i \in 1..Len(html) :
            (/\ html[i].tag = "h3"
             /\ IsWeekday(RStripChar(Strip(html[i].text), ":"))
             /\ \A j \in (i + 1)..Len(html) : html[j].tag # "table") =>
                /\ HasKey(days[1], RStripChar(Strip(html[i].text), ":"))
                /\ DictGet(days[1], RStripChar(Strip(html[i].text), ":"), None) = << >>

\* C9: a row whose cell contains "**" yields a lesson only in an even week,
\* one whose cell contains "*" but not "**" only in an odd week, and a row
\* without marker yields the same in both.
C9_ParityExclusive ==
    (Parsed /\ IsCellPage) =>
        /\ (Contains(TheCell, <<"*", "*">>) /\ MonLessons # << >>)
               => is_even_week(clock)
        /\ (Contains(TheCell, <<"*">>) /\ ~Contains(TheCell, <<"*", "*">>)
               /\ MonLessons # << >>) => ~is_even_week(clock)
        /\ ~Contains(TheCell, <<"*">>) =>
               /\ days[1] = parse_schedule(html, TRUE)
               /\ days[1] = parse_schedule(html, FALSE)

\* an odd-marked cell has been parsed in an odd week and gave its lesson
C9_Witness ==
    /\ Parsed
    /\ IsCellPage
    /\ TheCell = <<"*", "a">>
    /\ ~is_even_week(clock)
    /\ MonLessons = << <<"9", " ", DASH, " ", "a">> >>

\* C10: a row whose subject cell is empty or the dash yields no entry, and
\* no entry has an empty subject or the dash as its subject.
C10_NoPlaceholderEntry ==
    (Parsed /\ IsCellPage) =>
        /\ Strip(TheCell) \in { << >>, << DASH >> } => MonLessons = << >>
        /\ \A k \in 1..Len(MonLessons) :
               SubjectOf(MonLessons[k], TheTime) \notin { << >>, << DASH >> }

\* the line of the subgroup holds only the dash, and the row gave no entry
C10_Witness ==
    /\ Parsed
    /\ IsCellPage
    /\ TheCell = SubgroupTag \o << DASH >>
    /\ MonLessons = << >>

\* the recognized labels, and the heading texts of the document after
\* trimming and removal of the trailing colons
WeekdayLabels == { WEEKDAYS_RU[i] : i \in 1..Len(WEEKDAYS_RU) }

HeadingNames ==
    { RStripChar(Strip(html[i].text), ":") :
        i \in { j \in 1..Len(html) : html[j].tag = "h3" } }

\* C11: every key of the snapshot is a recognized weekday label that is the
\* text of a heading of the document; a document without a recognizable
\* heading gives the empty mapping.
C11_KeysAreRecognizedHeadings ==
    Parsed =>
        /\ \A k \in 1..Len(days[1]) :
               days[1][k][1] \in WeekdayLabels \cap HeadingNames
        /\ (WeekdayLabels \cap HeadingNames = {}) => days[1] = << >>

\* an unknown heading and a known one share the table: only the known is a key
C11_Witness ==
    /\ Parsed
    /\ Len(html) = 3
    /\ html[1] = H3(<<"x">>)
    /\ html[2] = H3(<<" ", "Tue", ":">>)
    /\ html[3].tag = "table"
    /\ Len(days[1]) = 1
    /\ days[1][1][1] = <<"Tue">>

\* the entries are those of rows 2.. of the table in rising row order, each
\* from a row of its own and starting with the first cell of that row
InRowOrder(lessons, rows) ==
    \E f \in [1..Len(lessons) -> 2..Len(rows)] :
        /\ \A k \in 1..Len(lessons) :
               /\ Len(rows[f[k]]) >= 2
               /\ StartsWith(lessons[k], Strip(rows[f[k]][1]) \o <<" ", DASH, " ">>)
        /\ \A j, k \in 1..Len(lessons) : j < k => f[j] < f[k]

\* node t is the first table after node i
FirstTableAfter(i, t) ==
    /\ t \in (i + 1)..Len(html)
    /\ html[t].tag = "table"
    /\ \A j \in (i + 1)..(t - 1) : html[j].tag # "table"

\* C13: a day's lessons follow the row order of its table after the first
\* row: at most one entry per row, each with the time of its own row.
C13_LessonsInRowOrder ==
    Parsed =>
        \A k \in 1..Len(days[1]) :
            \E i \in 1..Len(html) : \E t \in 1..Len(html) :
                /\ html[i].tag = "h3"
                /\ RStripChar(Strip(html[i].text), ":") = days[1][k][1]
                /\ FirstTableAfter(i, t)
                /\ InRowOrder(days[1][k][2], html[t].rows)

\* a table whose second data row has one cell only gave two entries in an
\* odd week, from its first and third data row
C13_Witness ==
    /\ Parsed
    /\ ~is_even_week(clock)
    /\ Len(html) = 2
    /\ html[1] = H3(<<"Mon">>)
    /\ html[2].tag = "table"
    /\ Len(html[2].rows) = 4
    /\ MonLessons = << <<"9", " ", DASH, " ", "a">>, <<"7", " ", DASH, " ", "b">> >>

(***************************************************************************)
(* Properties of the handlers, checked under ReplySpec                     *)
(***************************************************************************)
\* the mapping without the key
DictRemove(d, key) == SelectSeq(d, LAMBDA p : p[1] # key)

\* the weekdays handler h looks up at time t
DaysShown(h, t) ==
    IF h = "today" THEN { WEEKDAYS_RU[weekday(t) + 1] }
    ELSE IF h = "tomorrow" THEN { WEEKDAYS_RU[((weekday(t) + 1) % 7) + 1] }
    ELSE { WEEKDAYS_RU[i] : i \in 1..(Len(WEEKDAYS_RU) - 1) }

\* C15: a weekday present with an empty lesson list is answered differently
\* from the same weekday absent: the answer a handler sent for a snapshot in
\* which a weekday it shows is present and empty is not the answer it gives
\* for that snapshot without the weekday.
C15_AbsentDiffersFromEmpty ==
    \A c \in Tasks :
        (handler[c] # "none" /\ days # None) =>
            \A day \in DaysShown(handler[c], clock) :
                (HasKey(days[1], day) /\ DictGet(days[1], day, << >>) = << >>) =>
                    answers(handler[c], Some(DictRemove(days[1], day)), clock)
                        # sent[c]

====
